---- MODULE Spec2Model ----
(***************************************************************************)
(* Repository metadata cache of Shipyard.                                  *)
(*                                                                         *)
(* The model covers src/lib/server/cache-manager.ts (Cache Manager over    *)
(* the RepositoryCache table), src/lib/server/github-batch.ts (Upstream    *)
(* Fetcher and Refresh Orchestrator), the remote functions that start      *)
(* requests, and getRegistry's use of the same cache.                      *)
(*                                                                         *)
(* Scheduling: one JavaScript event loop.  An async function runs          *)
(* atomically from one await to the next, so every action below is one     *)
(* such segment.  Each database statement and each network call takes      *)
(* effect atomically in the step that completes it.  The store itself is   *)
(* taken to be reliable: the catch blocks around database statements are   *)
(* not exercised.  logRefreshAttempt only inserts into RefreshLog, which   *)
(* no modelled operation reads, so it is folded into the fetch step.       *)
(*                                                                         *)
(* Specifications: Spec (concurrent callers of one cluster), SpecSeq (one  *)
(* call at a time, with getRegistry), SpecKeys (batches over the empty     *)
(* cluster and an unknown key), SpecLive (SpecSeq's cluster calls with     *)
(* fairness), SpecRows (the Cache Manager's functions on any record),      *)
(* SpecArrive (non-forced calls that keep arriving, fetches that succeed   *)
(* from some point on), SpecOverlap (two refreshes in flight, no later     *)
(* call), SpecForce (force refreshes issued during a marked refresh).      *)
(***************************************************************************)
EXTENDS Integers, Sequences, FiniteSets, TLC

\* ---- bounds of the model ----
NumReqs == 2
MaxTime == 12
TickHours == 6
MaxErrorCount == 3
NumVersions == 2

\* ---- program constants ----
CACHE_TTL_HOURS == 6
ERROR_THRESHOLD == 3
InvalidateHours == 24
REGISTRY_CACHE_KEY == "__system_registry__"

Null == "null"
None == << >>
Some(x) == << x >>

FetchErrorMessage == "GitHub API returned 503"
TokenErrorMessage == "GITHUB_TOKEN environment variable is not set"
NotFoundMessage == "Cluster not found in registry"

\* registryConfig.groups, restricted to its first cluster and its last, the
\* one without members: every cluster has its own row and is handled by the
\* same code
ClusterRepos(k) ==
    IF k = "cinder" THEN << "cinder", "cinder-sv", "cinder-mcp" >> ELSE << >>

ClusterIds == << "cinder", "experimental-labs" >>
EmptyCluster == "experimental-labs"
\* a cluster name that passes ClusterNameSchema and is no group's id
UnknownKey == "ghost"
Clusters == { ClusterIds[i] : i \in 1 .. Len(ClusterIds) }
StoreKeys == Clusters \cup { REGISTRY_CACHE_KEY }
Reqs == 1 .. NumReqs
Versions == 1 .. NumVersions

VARIABLES
    groups,     \* ids of registryConfig.groups the process was built with
    now,        \* wall clock, in hours
    store,      \* RepositoryCache: key -> the rows with that clusterName, None | Some(row)
    tokenSet,   \* process.env.GITHUB_TOKEN is set
    req,        \* per request slot: position and locals of the running call
    resp,       \* None | Some(response the step just taken delivered to a caller)
    fails       \* history: per key, fetches that returned an error since the last commit

vars == << groups, now, store, tokenSet, req, resp, fails >>

\* ---------------------------------------------------------------------
\* Cache Manager (cache-manager.ts), as operators over the store
\* ---------------------------------------------------------------------
Has(st, k) == st[k] # None
Row(st, k) == st[k][1]

RECURSIVE MapNames(_)
MapNames(repos) ==
    IF repos = << >> THEN << >>
    ELSE << Head(repos).name >> \o MapNames(Tail(repos))

getCachedRepositories(st, k) ==
    IF ~Has(st, k) THEN None ELSE Some(Row(st, k).rawData)

\* the TTL comparison with >= in place of >
shouldRefreshClusterInclusive(st, k, t, ttlHours) ==
    IF ~Has(st, k) THEN TRUE
    ELSE IF Row(st, k).status = "refreshing" THEN FALSE
    ELSE IF Row(st, k).status = "error" /\ Row(st, k).errorCount >= ERROR_THRESHOLD THEN FALSE
    ELSE t - Row(st, k).fetchedAt >= ttlHours

\* without the refreshing check of lines 101-105
shouldRefreshClusterIgnoresRefreshing(st, k, t, ttlHours) ==
    IF ~Has(st, k) THEN TRUE
    ELSE IF Row(st, k).status = "error" /\ Row(st, k).errorCount >= ERROR_THRESHOLD THEN FALSE
    ELSE t - Row(st, k).fetchedAt > ttlHours

\* staleness read from the stored expiresAt in place of fetchedAt and the TTL
shouldRefreshClusterByExpiresAt(st, k, t, ttlHours) ==
    IF ~Has(st, k) THEN TRUE
    ELSE IF Row(st, k).status = "refreshing" THEN FALSE
    ELSE IF Row(st, k).status = "error" /\ Row(st, k).errorCount >= ERROR_THRESHOLD THEN FALSE
    ELSE t > Row(st, k).expiresAt

\* the doc comment of lines 77-80 taken literally: error status means refresh
shouldRefreshClusterAsDocumented(st, k, t, ttlHours) ==
    IF ~Has(st, k) THEN TRUE
    ELSE IF Row(st, k).status = "refreshing" THEN FALSE
    ELSE IF Row(st, k).status = "error" THEN TRUE
    ELSE t - Row(st, k).fetchedAt > ttlHours

\* without the error-state check of lines 107-111
shouldRefreshClusterNoBackoff(st, k, t, ttlHours) ==
    IF ~Has(st, k) THEN TRUE
    ELSE IF Row(st, k).status = "refreshing" THEN FALSE
    ELSE t - Row(st, k).fetchedAt > ttlHours

shouldRefreshCluster(st, k, t, ttlHours) ==
    IF ~Has(st, k) THEN TRUE
    ELSE IF Row(st, k).status = "refreshing" THEN FALSE
    ELSE IF Row(st, k).status = "error" /\ Row(st, k).errorCount >= ERROR_THRESHOLD THEN FALSE
    ELSE t - Row(st, k).fetchedAt > ttlHours

\* a plain INSERT in place of the upsert
setCachedRepositoriesInserts(st, k, repos, t, ttlHours) ==
    [st EXCEPT ![k] = Append(st[k], [ repoNames |-> MapNames(repos),
                                      rawData |-> repos,
                                      fetchedAt |-> t,
                                      expiresAt |-> t + ttlHours,
                                      status |-> "ok",
                                      errorCount |-> 0,
                                      lastError |-> Null,
                                      updatedAt |-> t ])]

\* the upsert leaving errorCount and lastError of an existing row as they are
setCachedRepositoriesKeepsErrors(st, k, repos, t, ttlHours) ==
    [st EXCEPT ![k] = Some([ repoNames |-> MapNames(repos),
                             rawData |-> repos,
                             fetchedAt |-> t,
                             expiresAt |-> t + ttlHours,
                             status |-> "ok",
                             errorCount |-> IF Has(st, k) THEN Row(st, k).errorCount ELSE 0,
                             lastError |-> IF Has(st, k) THEN Row(st, k).lastError ELSE Null,
                             updatedAt |-> t ])]

\* the upsert adding the items to the stored ones instead of replacing them
setCachedRepositoriesAppends(st, k, repos, t, ttlHours) ==
    [st EXCEPT ![k] = Some([ repoNames |-> (IF Has(st, k) THEN Row(st, k).repoNames ELSE << >>)
                                           \o MapNames(repos),
                             rawData |-> (IF Has(st, k) THEN Row(st, k).rawData ELSE << >>) \o repos,
                             fetchedAt |-> t,
                             expiresAt |-> t + ttlHours,
                             status |-> "ok",
                             errorCount |-> 0,
                             lastError |-> Null,
                             updatedAt |-> t ])]

setCachedRepositories(st, k, repos, t, ttlHours) ==
    [st EXCEPT ![k] = Some([ repoNames |-> MapNames(repos),
                             rawData |-> repos,
                             fetchedAt |-> t,
                             expiresAt |-> t + ttlHours,
                             status |-> "ok",
                             errorCount |-> 0,
                             lastError |-> Null,
                             updatedAt |-> t ])]

startCacheRefresh(st, k) ==
    IF ~Has(st, k) THEN st
    ELSE [st EXCEPT ![k] = Some([Row(st, k) EXCEPT !.status = "refreshing"])]

\* recordCacheError's UPDATE with rawData in its SET list
recordCacheErrorClearsPayload(st, k, readCount, message, t) ==
    IF ~Has(st, k) THEN st
    ELSE [st EXCEPT ![k] = Some([Row(st, k) EXCEPT
                 !.status = IF readCount + 1 >= ERROR_THRESHOLD THEN "error" ELSE "refreshing",
                 !.lastError = message,
                 !.errorCount = readCount + 1,
                 !.rawData = << >>,
                 !.updatedAt = t ])]

\* recordCacheError writing back the count it read
recordCacheErrorKeepsCount(st, k, readCount, message, t) ==
    IF ~Has(st, k) THEN st
    ELSE [st EXCEPT ![k] = Some([Row(st, k) EXCEPT
                 !.status = IF readCount + 1 >= ERROR_THRESHOLD THEN "error" ELSE "refreshing",
                 !.lastError = message,
                 !.errorCount = readCount,
                 !.updatedAt = t ])]

\* the UPDATE half of recordCacheError; readCount is what its SELECT returned
recordCacheErrorWrite(st, k, readCount, message, t) ==
    IF ~Has(st, k) THEN st
    ELSE [st EXCEPT ![k] = Some([Row(st, k) EXCEPT
                 !.status = IF readCount + 1 >= ERROR_THRESHOLD THEN "error" ELSE "refreshing",
                 !.lastError = message,
                 !.errorCount = readCount + 1,
                 !.updatedAt = t ])]

getStaleDataFallback(st, k) ==
    IF ~Has(st, k) THEN None ELSE Some(Row(st, k).rawData)

\* invalidateCache as a DELETE of the row
invalidateRowDeletes(st, k, t) ==
    IF ~Has(st, k) THEN st
    ELSE [st EXCEPT ![k] = None]

\* invalidateCache moving fetchedAt forward instead of back
invalidateRowForward(st, k, t) ==
    IF ~Has(st, k) THEN st
    ELSE [st EXCEPT ![k] = Some([Row(st, k) EXCEPT
                 !.fetchedAt = t + InvalidateHours,
                 !.updatedAt = t ])]

invalidateRow(st, k, t) ==
    IF ~Has(st, k) THEN st
    ELSE [st EXCEPT ![k] = Some([Row(st, k) EXCEPT
                 !.fetchedAt = t - InvalidateHours,
                 !.updatedAt = t ])]

invalidateCache(st, ks, t) ==
    [k \in StoreKeys |-> IF k \in ks THEN invalidateRow(st, k, t)[k] ELSE st[k]]

\* ---------------------------------------------------------------------
\* Request slots
\* ---------------------------------------------------------------------
IdleReq == [ pc |-> "idle", key |-> Null, force |-> FALSE, bg |-> FALSE, batch |-> FALSE,
             cached |-> None, fres |-> None, stale |-> None, errRead |-> 0 ]

Active(r) == req[r].pc # "idle"

\* the ids registryConfig.groups.find can match
GroupIds == { groups[i] : i \in 1 .. Len(groups) }

Init ==
    /\ groups = << "cinder" >>
    /\ now = 0
    /\ store = [k \in StoreKeys |-> None]
    /\ tokenSet \in BOOLEAN
    /\ req = [r \in Reqs |-> IdleReq]
    /\ resp = None
    /\ fails = [k \in StoreKeys |-> 0]

\* ---------------------------------------------------------------------
\* Upstream Fetcher (github-batch.ts fetchClusterFromGitHub, github.ts)
\* ---------------------------------------------------------------------
\* data.data[`repo${idx}`] of the GraphQL answer: in version NumVersions the
\* last member of the cluster no longer exists upstream
GitHubNode(repoNames, idx, v) ==
    IF v = NumVersions /\ idx = Len(repoNames) THEN None
    ELSE Some([ name |-> repoNames[idx], stars |-> v ])

RECURSIVE MapGitHubRepos(_, _, _)
MapGitHubRepos(repoNames, idx, v) ==
    IF idx > Len(repoNames) THEN << >>
    ELSE (IF GitHubNode(repoNames, idx, v) = None THEN << >>
          ELSE << GitHubNode(repoNames, idx, v)[1] >>)
         \o MapGitHubRepos(repoNames, idx + 1, v)

\* what fetchClusterFromGitHub returns once the token check has passed
FetchResults(k) ==
    { [ repos |-> Some(MapGitHubRepos(ClusterRepos(k), 1, v)), error |-> Null ] : v \in Versions }
    \cup { [ repos |-> None, error |-> FetchErrorMessage ] }

\* what fetchRepositories returns: the viewer's nodes, or [] on every failure
RegistryNodes(v) == << [ name |-> "shipyard", stars |-> v ] >>

fetchRepositories ==
    { [ repos |-> Some(RegistryNodes(v)), error |-> Null ] : v \in Versions }
    \cup { [ repos |-> Some(<< >>), error |-> FetchErrorMessage ] }

\* ---------------------------------------------------------------------
\* Starting requests
\* ---------------------------------------------------------------------
IdleSlots(rq) == { r \in Reqs : rq[r].pc = "idle" }
FirstIdle(rq) == CHOOSE r \in IdleSlots(rq) : \A q \in IdleSlots(rq) : r <= q

\* the synchronous prefix of getRepositoriesByCluster / getRegistry
StartedReq(k, f, b) ==
    [ IdleReq EXCEPT !.pc = IF k = REGISTRY_CACHE_KEY THEN "regShould"
                           ELSE IF k \in GroupIds THEN "getCached"
                           ELSE "notFound",
                     !.key = k, !.force = f, !.batch = b ]

RECURSIVE Spawn(_, _, _, _)
Spawn(rq, ks, f, b) ==
    IF ks = << >> THEN rq
    ELSE Spawn([rq EXCEPT ![FirstIdle(rq)] = StartedReq(Head(ks), f, b)], Tail(ks), f, b)

BatchInputs == UNION { [1 .. n -> GroupIds] : n \in 1 .. NumReqs }

BatchActive == \E r \in Reqs : req[r].batch /\ req[r].pc # "idle"

getRepositoriesByClusterRemote(k) ==
    /\ IdleSlots(req) # {}
    /\ req' = Spawn(req, << k >>, FALSE, FALSE)
    /\ resp' = None
    /\ UNCHANGED << groups, now, store, tokenSet, fails >>

getRepositoriesBatchRemote(ks) ==
    /\ ~BatchActive
    /\ Cardinality(IdleSlots(req)) >= Len(ks)
    /\ req' = Spawn(req, ks, FALSE, TRUE)
    /\ resp' = None
    /\ UNCHANGED << groups, now, store, tokenSet, fails >>

forceRefreshAllClusters ==
    /\ ~BatchActive
    /\ Cardinality(IdleSlots(req)) >= Len(groups)
    /\ req' = Spawn(req, groups, TRUE, TRUE)
    /\ resp' = None
    /\ UNCHANGED << groups, now, store, tokenSet, fails >>

getRegistry ==
    /\ IdleSlots(req) # {}
    /\ req' = Spawn(req, << REGISTRY_CACHE_KEY >>, FALSE, FALSE)
    /\ resp' = None
    /\ UNCHANGED << groups, now, store, tokenSet, fails >>

\* ---------------------------------------------------------------------
\* getRepositoriesByCluster, one action per await-delimited segment
\* ---------------------------------------------------------------------
Response(r, repos, c, s, e) ==
    Some([ slot |-> r, key |-> req[r].key, repos |-> repos, cached |-> c, isStale |-> s, error |-> e ])

\* the call in slot r has run to its end
Finish(r) == [req EXCEPT ![r] = IdleReq]

\* an unknown id rejecting the whole batch instead of its own entry
NotFoundFailsBatch(r) ==
    /\ req[r].pc = "notFound"
    /\ resp' = Response(r, << >>, FALSE, FALSE, NotFoundMessage)
    /\ req' = [q \in Reqs |-> IdleReq]
    /\ UNCHANGED << groups, now, store, tokenSet, fails >>

\* lines 210-218: no group has the requested id
NotFound(r) ==
    /\ req[r].pc = "notFound"
    /\ resp' = Response(r, << >>, FALSE, FALSE, NotFoundMessage)
    /\ req' = Finish(r)
    /\ UNCHANGED << groups, now, store, tokenSet, fails >>

GetCached(r) ==
    /\ req[r].pc = "getCached"
    /\ req' = [req EXCEPT ![r].cached = getCachedRepositories(store, req[r].key),
                          ![r].pc = "shouldRefresh"]
    /\ resp' = None
    /\ UNCHANGED << groups, now, store, tokenSet, fails >>

needsRefresh(r) == shouldRefreshCluster(store, req[r].key, now, CACHE_TTL_HOURS)

\* the fresh answer given while a background refresh is started all the same
ServeFreshRefreshes(r) ==
    /\ req[r].pc = "shouldRefresh"
    /\ req[r].cached # None /\ ~needsRefresh(r) /\ ~req[r].force
    /\ resp' = Response(r, req[r].cached[1], TRUE, FALSE, Null)
    /\ req' = IF tokenSet THEN [req EXCEPT ![r].pc = "fetch", ![r].bg = TRUE, ![r].cached = None]
              ELSE Finish(r)
    /\ UNCHANGED << groups, now, store, tokenSet, fails >>

\* lines 226-234
ServeFresh(r) ==
    /\ req[r].pc = "shouldRefresh"
    /\ req[r].cached # None /\ ~needsRefresh(r) /\ ~req[r].force
    /\ resp' = Response(r, req[r].cached[1], TRUE, FALSE, Null)
    /\ req' = Finish(r)
    /\ UNCHANGED << groups, now, store, tokenSet, fails >>

\* lines 236-251: the response is returned and refreshInBackground runs up to
\* its first await; without a token fetchClusterFromGitHub rejects at once and
\* refreshInBackground's catch swallows it
ServeStale(r) ==
    /\ req[r].pc = "shouldRefresh"
    /\ req[r].cached # None /\ needsRefresh(r) /\ ~req[r].force
    /\ resp' = Response(r, req[r].cached[1], TRUE, TRUE, Null)
    /\ req' = IF tokenSet THEN [req EXCEPT ![r].pc = "fetch", ![r].bg = TRUE, ![r].cached = None]
              ELSE Finish(r)
    /\ UNCHANGED << groups, now, store, tokenSet, fails >>

\* lines 253-257
MissOrForce(r) ==
    /\ req[r].pc = "shouldRefresh"
    /\ ~(req[r].cached # None /\ ~req[r].force)
    /\ req' = [req EXCEPT ![r].pc = "startRefresh", ![r].cached = None]
    /\ resp' = None
    /\ UNCHANGED << groups, now, store, tokenSet, fails >>

\* lines 257-259 and 62-68: the UPDATE of startCacheRefresh completes, then
\* fetchClusterFromGitHub is called; its throw lands in the outer catch
StartRefresh(r) ==
    /\ req[r].pc = "startRefresh"
    /\ store' = startCacheRefresh(store, req[r].key)
    /\ IF tokenSet
       THEN /\ req' = [req EXCEPT ![r].pc = "fetch"]
            /\ resp' = None
       ELSE /\ req' = Finish(r)
            /\ resp' = Response(r, << >>, FALSE, FALSE, TokenErrorMessage)
    /\ UNCHANGED << groups, now, tokenSet, fails >>

FailuresPending(k) ==
    Cardinality({ q \in Reqs : req[q].key = k /\ req[q].fres # None
                               /\ req[q].pc \in { "staleFallback", "recErrRead", "recErrWrite" } })

\* the network call of fetchClusterFromGitHub answers (lines 110-187)
Fetch(r) ==
    /\ req[r].pc = "fetch"
    /\ \E res \in FetchResults(req[r].key) :
          /\ res.error # Null /\ Has(store, req[r].key) =>
                 Row(store, req[r].key).errorCount + FailuresPending(req[r].key) < MaxErrorCount
          /\ res.error # Null => fails[req[r].key] < MaxErrorCount
          /\ fails' = IF res.error = Null THEN fails
                      ELSE [fails EXCEPT ![req[r].key] = @ + 1]
          /\ req' = [req EXCEPT ![r].fres = Some(res),
                                ![r].pc = IF res.error = Null THEN "setCached"
                                          ELSE IF req[r].bg THEN "recErrRead"
                                          ELSE "staleFallback"]
    /\ resp' = None
    /\ UNCHANGED << groups, now, store, tokenSet >>

\* line 263
StaleFallback(r) ==
    /\ req[r].pc = "staleFallback"
    /\ req' = [req EXCEPT ![r].stale = getStaleDataFallback(store, req[r].key),
                          ![r].pc = "recErrRead"]
    /\ resp' = None
    /\ UNCHANGED << groups, now, store, tokenSet, fails >>

\* lines 266-282: what the blocking path answers after a returned fetch error
ErrorResponse(r) ==
    IF req[r].stale # None
    THEN Response(r, req[r].stale[1], TRUE, TRUE, req[r].fres[1].error)
    ELSE Response(r, << >>, FALSE, FALSE, req[r].fres[1].error)

\* refreshInBackground handing its failure to a caller
AfterRecordErrorSurfaces(r) ==
    /\ req' = Finish(r)
    /\ resp' = ErrorResponse(r)

\* recordCacheError has returned: refreshInBackground ends, the blocking path answers
AfterRecordError(r) ==
    /\ req' = Finish(r)
    /\ resp' = IF req[r].bg THEN None ELSE ErrorResponse(r)

\* recordCacheError, the SELECT (lines 244-250)
RecErrRead(r) ==
    /\ req[r].pc = "recErrRead"
    /\ Has(store, req[r].key) => Row(store, req[r].key).errorCount < MaxErrorCount
    /\ IF Has(store, req[r].key)
       THEN /\ req' = [req EXCEPT ![r].errRead = Row(store, req[r].key).errorCount,
                                  ![r].pc = "recErrWrite"]
            /\ resp' = None
       ELSE AfterRecordError(r)
    /\ UNCHANGED << groups, now, store, tokenSet, fails >>

\* recordCacheError, the UPDATE (lines 252-263)
RecErrWrite(r) ==
    /\ req[r].pc = "recErrWrite"
    /\ store' = recordCacheErrorWrite(store, req[r].key, req[r].errRead, req[r].fres[1].error, now)
    /\ AfterRecordError(r)
    /\ UNCHANGED << groups, now, tokenSet, fails >>

\* lines 294-301 (blocking path), 326-329 (background), registry.ts 128
SetCached(r) ==
    /\ req[r].pc = "setCached"
    /\ store' = setCachedRepositories(store, req[r].key, req[r].fres[1].repos[1], now, CACHE_TTL_HOURS)
    /\ req' = Finish(r)
    /\ resp' = IF req[r].bg \/ req[r].key = REGISTRY_CACHE_KEY THEN None
               ELSE Response(r, req[r].fres[1].repos[1], FALSE, FALSE, Null)
    /\ fails' = [fails EXCEPT ![req[r].key] = 0]
    /\ UNCHANGED << groups, now, tokenSet >>

\* ---------------------------------------------------------------------
\* getRegistry (registry.ts lines 110-144)
\* ---------------------------------------------------------------------
RegShould(r) ==
    /\ req[r].pc = "regShould"
    /\ req' = [req EXCEPT ![r].pc = IF needsRefresh(r) THEN "startRefresh" ELSE "regGetCached"]
    /\ resp' = None
    /\ UNCHANGED << groups, now, store, tokenSet, fails >>

RegGetCached(r) ==
    /\ req[r].pc = "regGetCached"
    /\ IF getCachedRepositories(store, req[r].key) # None
       THEN req' = Finish(r)
       ELSE req' = [req EXCEPT ![r].pc = "startRefresh"]
    /\ resp' = None
    /\ UNCHANGED << groups, now, store, tokenSet, fails >>

RegStartRefresh(r) ==
    /\ req[r].pc = "startRefresh"
    /\ store' = startCacheRefresh(store, req[r].key)
    /\ req' = [req EXCEPT ![r].pc = "regFetch"]
    /\ resp' = None
    /\ UNCHANGED << groups, now, tokenSet, fails >>

RegFetch(r) ==
    /\ req[r].pc = "regFetch"
    /\ \E res \in fetchRepositories :
          req' = [req EXCEPT ![r].fres = Some(res), ![r].pc = "setCached"]
    /\ resp' = None
    /\ UNCHANGED << groups, now, store, tokenSet, fails >>

\* ---------------------------------------------------------------------
\* Administration and environment
\* ---------------------------------------------------------------------
invalidateCacheRemote(ks) ==
    /\ store' = invalidateCache(store, ks, now)
    /\ store' # store
    /\ resp' = None
    /\ UNCHANGED << groups, now, tokenSet, req, fails >>

\* the server process is restarted with a changed environment
Redeploy ==
    /\ \A r \in Reqs : req[r].pc = "idle"
    /\ tokenSet' = ~tokenSet
    /\ resp' = None
    /\ UNCHANGED << groups, now, store, req, fails >>

Tick ==
    /\ now + TickHours <= MaxTime
    /\ now' = now + TickHours
    /\ resp' = None
    /\ UNCHANGED << groups, store, tokenSet, req, fails >>

IsCluster(r) == req[r].key \in Clusters
IsRegistry(r) == req[r].key = REGISTRY_CACHE_KEY

\* the segments of a running call
Step(r) ==
    \/ GetCached(r)
    \/ ServeFresh(r)
    \/ ServeStale(r)
    \/ MissOrForce(r)
    \/ IsCluster(r) /\ StartRefresh(r)
    \/ Fetch(r)
    \/ StaleFallback(r)
    \/ RecErrRead(r)
    \/ RecErrWrite(r)
    \/ SetCached(r)

RegStep(r) ==
    \/ RegShould(r)
    \/ RegGetCached(r)
    \/ IsRegistry(r) /\ RegStartRefresh(r)
    \/ RegFetch(r)

\* Concurrent callers of the cluster queries
Next ==
    \/ \E k \in GroupIds : getRepositoriesByClusterRemote(k)
    \/ \E ks \in BatchInputs : getRepositoriesBatchRemote(ks)
    \/ forceRefreshAllClusters
    \/ \E r \in Reqs : Step(r)
    \/ \E k \in GroupIds : invalidateCacheRemote({ k })
    \/ invalidateCacheRemote(StoreKeys)
    \/ Redeploy
    \/ Tick

Spec == Init /\ [][Next]_vars

\* One call at a time, each running to its end (background refresh included)
\* before the next starts; cluster queries and getRegistry share the table
Quiescent == \A r \in Reqs : req[r].pc = "idle"

NextSeq ==
    \/ \E k \in GroupIds : Quiescent /\ getRepositoriesByClusterRemote(k)
    \/ Quiescent /\ forceRefreshAllClusters
    \/ Quiescent /\ getRegistry
    \/ \E r \in Reqs : Step(r)
    \/ \E r \in Reqs : RegStep(r)
    \/ \E k \in GroupIds \cup { REGISTRY_CACHE_KEY } : invalidateCacheRemote({ k })
    \/ invalidateCacheRemote(StoreKeys)
    \/ Redeploy
    \/ Tick

SpecSeq == Init /\ [][NextSeq]_vars

\* The whole modelled configuration, with batches that may name a cluster
\* that is not configured; one batch at a time, its members running together
InitAllGroups ==
    /\ groups = ClusterIds
    /\ now = 0
    /\ store = [k \in StoreKeys |-> None]
    /\ tokenSet \in BOOLEAN
    /\ req = [r \in Reqs |-> IdleReq]
    /\ resp = None
    /\ fails = [k \in StoreKeys |-> 0]

RequestKeys == GroupIds \cup { UnknownKey }
BatchInputsAny == UNION { [1 .. n -> RequestKeys] : n \in 1 .. NumReqs }

NextKeys ==
    \/ \E ks \in BatchInputsAny : Quiescent /\ getRepositoriesBatchRemote(ks)
    \/ Quiescent /\ forceRefreshAllClusters
    \/ \E r \in Reqs : NotFound(r)
    \/ \E r \in Reqs : Step(r)
    \/ Redeploy
    \/ Tick

SpecKeys == InitAllGroups /\ [][NextKeys]_vars

\* Progress: every segment of a call that waits only for the database or for
\* the event loop is eventually run.  The answer of the upstream is not: the
\* fetch of line 110 is given no signal and no timer, so nothing in the
\* program makes a pending fetch end.
LocalStep(r) ==
    \/ GetCached(r)
    \/ ServeFresh(r)
    \/ ServeStale(r)
    \/ MissOrForce(r)
    \/ StartRefresh(r)
    \/ StaleFallback(r)
    \/ RecErrRead(r)
    \/ RecErrWrite(r)
    \/ SetCached(r)

NextLive ==
    \/ \E k \in GroupIds : Quiescent /\ getRepositoriesByClusterRemote(k)
    \/ Quiescent /\ forceRefreshAllClusters
    \/ \E r \in Reqs : Step(r)
    \/ Redeploy
    \/ Tick

SpecLive == Init /\ [][NextLive]_vars /\ \A r \in Reqs : WF_vars(LocalStep(r))

\* non-forced calls that keep arriving, no restart, every step of a call and
\* every answer of the upstream eventually happening, and from some point on
\* no fetch that fails
InitToken == Init /\ tokenSet

NoFetchFails == \A k \in StoreKeys : fails'[k] <= fails[k]

NextArrive ==
    \/ \E k \in GroupIds : Quiescent /\ getRepositoriesByClusterRemote(k)
    \/ \E r \in Reqs : Step(r)
    \/ Tick

SpecArrive ==
    /\ InitToken /\ [][NextArrive]_vars
    /\ \A r \in Reqs : WF_vars(Step(r))
    /\ \A k \in Clusters :
          WF_vars(k \in GroupIds /\ Quiescent /\ getRepositoriesByClusterRemote(k))
    /\ <>[][NoFetchFails]_vars

\* ---------------------------------------------------------------------
\* The Cache Manager's functions on their own: the table starts with any
\* record the functions can leave behind, and callers apply them directly
\* ---------------------------------------------------------------------
Times == { t \in 0 .. MaxTime : t % TickHours = 0 }

\* errorCount values a record of the given status can carry: 0 after
\* setCachedRepositories, the threshold or more once recordCacheError has set
\* status error, anything while refreshing
ErrorCounts(status) ==
    IF status = "ok" THEN { 0 }
    ELSE IF status = "error" THEN ERROR_THRESHOLD .. MaxErrorCount
    ELSE 0 .. MaxErrorCount

\* values of the optional ttlHours argument
TTLs == { 1, CACHE_TTL_HOURS, 2 * CACHE_TTL_HOURS }

Payloads(k) == { res.repos[1] : res \in { x \in FetchResults(k) : x.error = Null } }

Records(k, t) ==
    { [ repoNames |-> MapNames(p),
        rawData |-> p,
        fetchedAt |-> f,
        expiresAt |-> f + CACHE_TTL_HOURS,
        status |-> s,
        errorCount |-> e,
        lastError |-> IF e = 0 THEN Null ELSE FetchErrorMessage,
        updatedAt |-> IF e = 0 THEN f ELSE t ] :
          p \in Payloads(k), f \in { x \in Times : x <= t },
          s \in { "ok", "refreshing", "error" }, e \in 0 .. MaxErrorCount }

InitRows ==
    /\ groups = << "cinder" >>
    /\ now \in Times
    /\ \E row \in { x \in Records("cinder", now) : x.errorCount \in ErrorCounts(x.status) } :
          store = [k \in StoreKeys |-> IF k = "cinder" THEN Some(row) ELSE None]
    /\ tokenSet = TRUE
    /\ req = [r \in Reqs |-> IdleReq]
    /\ resp = None
    /\ fails = [k \in StoreKeys |-> 0]

\* a caller about to store the same items twice in a row
CallSetCachedTwice(k, repos) ==
    /\ \A r \in Reqs : req[r].pc \in { "idle", "setDone" }
    /\ req' = [r \in Reqs |->
                 IF r = 1 THEN [ IdleReq EXCEPT !.pc = "setFirst", !.key = k,
                                                !.fres = Some([ repos |-> Some(repos), error |-> Null ]) ]
                 ELSE IdleReq]
    /\ resp' = None
    /\ UNCHANGED << groups, now, store, tokenSet, fails >>

SetFirst(r) ==
    /\ req[r].pc = "setFirst"
    /\ store' = setCachedRepositories(store, req[r].key, req[r].fres[1].repos[1], now, CACHE_TTL_HOURS)
    /\ req' = [req EXCEPT ![r].pc = "setSecond"]
    /\ resp' = None
    /\ UNCHANGED << groups, now, tokenSet, fails >>

SetSecond(r) ==
    /\ req[r].pc = "setSecond"
    /\ store' = setCachedRepositories(store, req[r].key, req[r].fres[1].repos[1], now, CACHE_TTL_HOURS)
    /\ req' = [req EXCEPT ![r].pc = "setDone"]
    /\ resp' = None
    /\ UNCHANGED << groups, now, tokenSet, fails >>

NextRows ==
    \/ \E k \in GroupIds : \E repos \in Payloads(k) : CallSetCachedTwice(k, repos)
    \/ \E r \in Reqs : SetFirst(r)
    \/ \E r \in Reqs : SetSecond(r)
    \/ \E k \in GroupIds : invalidateCacheRemote({ k })
    \/ Tick

SpecRows == InitRows /\ [][NextRows]_vars

\* ---------------------------------------------------------------------
\* Properties
\* ---------------------------------------------------------------------
InFlight(k, S) == Cardinality({ r \in S : req[r].key = k /\ req[r].pc = "fetch" })

BackgroundReqs == { r \in Reqs : req[r].bg }
MissReqs == { r \in Reqs : ~req[r].bg /\ ~req[r].force }

\* C1: STALE-path triggers for one cluster never have more than one
\* background fetch (refreshInBackground -> fetchClusterFromGitHub) in flight.
C1_StaleSingleFlight ==
    \A k \in Clusters : InFlight(k, BackgroundReqs) <= 1

\* C2: callers that observed a miss for one cluster never have more than one
\* upstream fetch for it in flight.
C2_MissSingleFlight ==
    \A k \in Clusters : InFlight(k, MissReqs) <= 1

\* C3: within one batch request, getRepositoriesByCluster runs at most once
\* per cluster key.
C3_BatchKeyDedup ==
    \A r1, r2 \in Reqs :
        ( /\ Active(r1) /\ Active(r2)
          /\ req[r1].batch /\ req[r2].batch
          /\ req[r1].key = req[r2].key ) => r1 = r2

\* the call in slot r takes the step out of position p
Leaves(r, p) == req[r].pc = p /\ req'[r] # req[r]

\* the step commits a fetch for key k that returned no error
CommitsSuccess(k) ==
    \E r \in Reqs : /\ req[r].key = k
                    /\ Leaves(r, "setCached")
                    /\ req[r].fres[1].error = Null

\* C4: the payload of an existing record is overwritten only in a step that
\* commits an upstream fetch that succeeded.
C4_PayloadOnlyBySuccess ==
    [][ \A k \in StoreKeys :
          (Has(store, k) /\ getCachedRepositories(store', k) # getCachedRepositories(store, k))
              => CommitsSuccess(k) ]_vars

\* C5: recordCacheError leaves rawData, repoNames and fetchedAt of its record
\* as they were and changes no other record; without a record it changes
\* nothing.
C5_RecordErrorFrame ==
    [][ \A r \in Reqs :
          /\ Leaves(r, "recErrRead") => store' = store
          /\ Leaves(r, "recErrWrite") =>
                /\ Has(store', req[r].key)
                /\ Row(store', req[r].key).rawData = Row(store, req[r].key).rawData
                /\ Row(store', req[r].key).repoNames = Row(store, req[r].key).repoNames
                /\ Row(store', req[r].key).fetchedAt = Row(store, req[r].key).fetchedAt
                /\ \A k \in StoreKeys \ { req[r].key } : store'[k] = store[k] ]_vars

\* a failure has been recorded on a record with a payload while another
\* record exists
C5_Witness ==
    \E k \in Clusters :
        /\ Has(store, k)
        /\ Row(store, k).errorCount >= 1
        /\ Row(store, k).lastError = FetchErrorMessage
        /\ Row(store, k).rawData # << >>
        /\ Has(store, REGISTRY_CACHE_KEY)

\* C6: a response that carries an error is the empty one only when the
\* cluster has no record; while a record exists it carries the record's
\* payload with cached and isStale set.
C6_ErrorOnlyWithoutPayload ==
    (resp # None /\ resp[1].key \in Clusters /\ resp[1].error # Null) =>
        IF Has(store, resp[1].key)
        THEN /\ resp[1].cached /\ resp[1].isStale
             /\ resp[1].repos = Row(store, resp[1].key).rawData
        ELSE /\ ~resp[1].cached /\ ~resp[1].isStale
             /\ resp[1].repos = << >>

\* shouldRefreshCluster as its callers use it (no ttlHours argument)
IsStale(st, k, t) == shouldRefreshCluster(st, k, t, CACHE_TTL_HOURS)

WithinTTL(k) == now - Row(store, k).fetchedAt <= CACHE_TTL_HOURS

\* C8 (Scenario A): a miss whose fetch succeeds answers {cached: false,
\* isStale: false} with the fetched items and stores them; a non-forced call
\* on a record within its TTL answers {cached: true, isStale: false} with the
\* stored items, writes nothing and starts no fetch; and the stored items
\* change only when a fetch is committed.
C8_ScenarioA ==
    [][ \A r \in Reqs : IsCluster(r) =>
          /\ (Leaves(r, "setCached") /\ ~req[r].bg /\ ~req[r].force /\ ~Has(store, req[r].key)) =>
                /\ resp' = Response(r, req[r].fres[1].repos[1], FALSE, FALSE, Null)
                /\ Row(store', req[r].key).rawData = req[r].fres[1].repos[1]
          /\ (Leaves(r, "shouldRefresh") /\ ~req[r].force /\ Has(store, req[r].key)
                                         /\ WithinTTL(req[r].key)) =>
                /\ resp' = Response(r, Row(store, req[r].key).rawData, TRUE, FALSE, Null)
                /\ req'[r] = IdleReq
                /\ store' = store
          /\ (Has(store, req[r].key)
                /\ Row(store', req[r].key).rawData # Row(store, req[r].key).rawData) =>
                \E q \in Reqs : req[q].key = req[r].key /\ Leaves(q, "setCached") ]_vars

\* a later call, after time has passed but within the TTL, was answered from
\* the cache with the three stored items
C8_Witness ==
    /\ resp # None
    /\ resp[1].cached /\ ~resp[1].isStale
    /\ Len(resp[1].repos) = 3
    /\ Has(store, resp[1].key)
    /\ resp[1].repos = Row(store, resp[1].key).rawData
    /\ Row(store, resp[1].key).status = "ok"
    /\ now > Row(store, resp[1].key).fetchedAt

Invalidates(k) ==
    /\ Has(store, k)
    /\ req' = req
    /\ store'[k] = invalidateRow(store, k, now)[k]
    /\ store'[k] # store[k]

\* C11 (Scenario D): right after invalidateCache has rewritten an existing
\* record, whatever its status and errorCount, shouldRefreshCluster is true
\* for its key (stated for the moments when no call is running, so that
\* status refreshing is not that of a refresh in progress).
C11_InvalidateForcesStale ==
    [][ \A k \in Clusters : (Quiescent /\ Invalidates(k)) => IsStale(store', k, now') ]_vars

\* C12: a call for the cluster without members never has a network call in
\* flight, and it is answered with an empty list and no error.
C12_EmptyClusterShortCircuit ==
    /\ \A r \in Reqs : req[r].key = EmptyCluster => req[r].pc # "fetch"
    /\ (resp # None /\ resp[1].key = EmptyCluster) =>
          (resp[1].repos = << >> /\ resp[1].error = Null)

\* C13: a batch member whose key is not configured is answered with the
\* empty not-found error response by a step that reads and writes no record,
\* starts no fetch and leaves every other call as it was; no step of another
\* call touches it; and every member of a batch ends with its own response.
C13_UnknownKeyPerKeyError ==
    [][ \A r \in Reqs :
          /\ (Active(r) /\ req[r].key \notin GroupIds \cup { REGISTRY_CACHE_KEY }) =>
                /\ req[r].pc = "notFound"
                /\ req'[r] \in { req[r], IdleReq }
          /\ Leaves(r, "notFound") =>
                /\ resp' = Response(r, << >>, FALSE, FALSE, NotFoundMessage)
                /\ store' = store
                /\ \A q \in Reqs \ { r } : req'[q] = req[q]
          /\ (req[r].batch /\ ~req[r].bg /\ Active(r) /\ req'[r] = IdleReq) =>
                (resp' # None /\ resp'[1].slot = r /\ resp'[1].key = req[r].key) ]_vars

\* the unknown member of a batch has just been answered with its error while
\* the other member, a configured cluster, has fetched and is about to commit
C13_Witness ==
    /\ resp # None
    /\ resp[1].key = UnknownKey
    /\ resp[1].error = NotFoundMessage
    /\ \E q \in Reqs : /\ req[q].batch
                       /\ req[q].key \in GroupIds
                       /\ req[q].pc = "setCached"

\* the step starts the network fetch of the call in slot r
StartsFetch(r) == req[r].pc # "fetch" /\ req'[r].pc = "fetch"

\* C14: whenever a call starts its network fetch (miss, force refresh or
\* background refresh), the cluster's record exists with status refreshing.
C14_RefreshingBeforeFetch ==
    [][ \A r \in Reqs : (StartsFetch(r) /\ req'[r].key \in Clusters) =>
          /\ Has(store', req'[r].key)
          /\ Row(store', req'[r].key).status = "refreshing" ]_vars

\* the step completes recordCacheError for the call in slot r
RecordsError(r) == Leaves(r, "recErrRead") \/ Leaves(r, "recErrWrite")

\* C15: a response that carries a fetch failure for a configured cluster is
\* delivered by the step that completes recordCacheError for that call: the
\* failure came back as a value and was recorded before the answer.
C15_FailureRecordedBeforeResponse ==
    [][ (resp' # None /\ resp'[1].key \in GroupIds /\ resp'[1].error # Null) =>
            (req[resp'[1].slot].fres # None /\ RecordsError(resp'[1].slot)) ]_vars

\* C16: the second of two setCachedRepositories calls in a row for one key
\* with the same items leaves the record as the first call left it in
\* rawData, repoNames, status, errorCount and lastError, keeps it the key's
\* one record and changes no other record; only timestamps move.
C16_SetCachedIdempotent ==
    [][ \A r \in Reqs : Leaves(r, "setSecond") =>
          /\ Has(store, req[r].key) /\ Has(store', req[r].key)
          /\ Row(store', req[r].key).rawData = Row(store, req[r].key).rawData
          /\ Row(store', req[r].key).rawData = req[r].fres[1].repos[1]
          /\ Row(store', req[r].key).repoNames = Row(store, req[r].key).repoNames
          /\ Row(store', req[r].key).status = Row(store, req[r].key).status
          /\ Row(store', req[r].key).errorCount = Row(store, req[r].key).errorCount
          /\ Row(store', req[r].key).lastError = Row(store, req[r].key).lastError
          /\ Row(store', req[r].key).fetchedAt = now
          /\ \A j \in StoreKeys \ { req[r].key } : store'[j] = store[j] ]_vars

\* both calls have run, the second one later than the first: the record holds
\* the items with the timestamps of the second call
C16_Witness ==
    \E r \in Reqs :
        /\ req[r].pc = "setDone"
        /\ Has(store, req[r].key)
        /\ Len(Row(store, req[r].key).rawData) = 3
        /\ Row(store, req[r].key).rawData = req[r].fres[1].repos[1]
        /\ Row(store, req[r].key).fetchedAt = now
        /\ Row(store, req[r].key).expiresAt = now + CACHE_TTL_HOURS
        /\ now = MaxTime

\* C17: a non-forced call that finds a payload and shouldRefreshCluster true
\* answers in that same step, before any fetch, with {cached: true,
\* isStale: true}, the payload it read and no error; and no step of a
\* background refresh (fetch answer, recordCacheError, setCachedRepositories,
\* or the swallowed throw) delivers anything to a caller.
C17_StaleAnswerUnaffected ==
    [][ \A r \in Reqs : IsCluster(r) =>
          /\ (Leaves(r, "shouldRefresh") /\ req[r].cached # None /\ ~req[r].force
                /\ IsStale(store, req[r].key, now)) =>
                /\ resp' = Response(r, req[r].cached[1], TRUE, TRUE, Null)
                /\ store' = store
                /\ req'[r] = IdleReq \/ (req'[r].bg /\ req'[r].pc = "fetch")
          /\ (req[r].bg /\ req'[r] # req[r]) => resp' = None ]_vars

\* the stale answer has just been delivered while the refresh it spawned is
\* still waiting for the upstream, next to another refresh that has failed
C17_Witness ==
    /\ resp # None
    /\ resp[1].cached /\ resp[1].isStale /\ resp[1].error = Null
    /\ Len(resp[1].repos) > 0
    /\ req[resp[1].slot].bg /\ req[resp[1].slot].pc = "fetch"
    /\ \E q \in Reqs : req[q].bg /\ req[q].pc = "recErrWrite"

\* the step ends the call in slot r
Ends(r) == req[r] # IdleReq /\ req'[r] = IdleReq

\* C18: a force refresh is never answered from the cache without a fetch; on
\* an existing record it starts its fetch with status refreshing; it ends in
\* the step that commits the fetch or records its failure, with an answer;
\* and an answer that carries an error while a record exists carries the
\* record's payload.
C18_ForceRefreshLikeMiss ==
    [][ \A r \in Reqs : (IsCluster(r) /\ req[r].force) =>
          /\ Leaves(r, "shouldRefresh") => (req'[r].pc = "startRefresh" /\ resp' = None)
          /\ (StartsFetch(r) /\ Has(store, req[r].key)) =>
                Row(store', req[r].key).status = "refreshing"
          /\ Ends(r) =>
                /\ Leaves(r, "setCached") \/ RecordsError(r)
                /\ resp' # None
                /\ (resp'[1].error # Null /\ Has(store', req[r].key)) =>
                      (resp'[1].cached /\ resp'[1].repos = Row(store', req[r].key).rawData) ]_vars

\* C19: a blocking call (miss or force refresh) that has started its fetch
\* eventually ends with its answer.
C19_BlockingRequestResponds ==
    \A r \in Reqs : (req[r].pc = "fetch" /\ ~req[r].bg) ~> (req[r].pc = "idle")

\* the record of key k is in the error state that stops refreshing
InBackoff(st, k) ==
    Row(st, k).status = "error" /\ Row(st, k).errorCount >= ERROR_THRESHOLD

ErrorCountOf(st, k) == IF Has(st, k) THEN Row(st, k).errorCount ELSE 0

\* C22: when the handling of a failed fetch ends (blocking or background,
\* with or without a record before), the cluster has a record whose
\* errorCount is one more than before and whose lastError is the failure's
\* message.
C22_EveryFailureCounted ==
    [][ \A r \in Reqs : (IsCluster(r) /\ Ends(r) /\ RecordsError(r)) =>
          /\ Has(store', req[r].key)
          /\ Row(store', req[r].key).errorCount = ErrorCountOf(store, req[r].key) + 1
          /\ Row(store', req[r].key).lastError = req[r].fres[1].error ]_vars

\* C23: with no call running, a record whose failures stayed below the
\* threshold and whose TTL has expired is reported stale by the next
\* freshness check, so that the next non-forced call fetches again.
C23_RecoverableAfterFailure ==
    \A k \in Clusters :
        ( /\ Quiescent
          /\ Has(store, k)
          /\ Row(store, k).errorCount > 0
          /\ Row(store, k).errorCount < ERROR_THRESHOLD
          /\ now - Row(store, k).fetchedAt > CACHE_TTL_HOURS ) => IsStale(store, k, now)

\* C24: the step that completes setCachedRepositories for a key, with or
\* without a record before, leaves a record with the given items as payload,
\* fetchedAt = now, expiresAt = now + ttl, status ok, errorCount 0 and no
\* lastError.
C24_CommitSuccessFields ==
    [][ \A r \in Reqs : Leaves(r, "setCached") =>
          /\ Has(store', req[r].key)
          /\ Row(store', req[r].key).rawData = req[r].fres[1].repos[1]
          /\ Row(store', req[r].key).fetchedAt = now
          /\ Row(store', req[r].key).expiresAt = now + CACHE_TTL_HOURS
          /\ Row(store', req[r].key).status = "ok"
          /\ Row(store', req[r].key).errorCount = 0
          /\ Row(store', req[r].key).lastError = Null ]_vars

\* a blocking call has just committed and answered with its fetch, at a time
\* after the start, next to a record of another key
C24_Witness ==
    /\ resp # None
    /\ ~resp[1].cached /\ resp[1].error = Null
    /\ Len(resp[1].repos) > 0
    /\ now > 0
    /\ Has(store, resp[1].key)
    /\ Row(store, resp[1].key).rawData = resp[1].repos
    /\ Row(store, resp[1].key).fetchedAt = now
    /\ Row(store, resp[1].key).errorCount = 0
    /\ Has(store, REGISTRY_CACHE_KEY)
    /\ Row(store, REGISTRY_CACHE_KEY).fetchedAt < now

\* C25: when a non-forced blocking call ends after its fetch has answered,
\* with success or with an error, the cluster has a record.
C25_RecordAfterFirstMiss ==
    [][ \A r \in Reqs :
          (IsCluster(r) /\ Ends(r) /\ ~req[r].bg /\ ~req[r].force /\ req[r].fres # None) =>
              Has(store', req[r].key) ]_vars

\* the rows of the table that carry clusterName k
RowsOf(st, k) == st[k]

\* C26: every cluster key has at most one row, whatever refreshes overlap.
C26_OneRecordPerKey ==
    \A k \in StoreKeys : Len(RowsOf(store, k)) <= 1

\* a blocking call has just committed its fetch while an overlapping refresh
\* of the same cluster is about to commit its own
C26_Witness ==
    /\ resp # None
    /\ ~resp[1].cached /\ resp[1].error = Null
    /\ Has(store, resp[1].key)
    /\ Row(store, resp[1].key).rawData = resp[1].repos
    /\ \E q \in Reqs : /\ req[q].key = resp[1].key
                       /\ req[q].pc = "setCached"
                       /\ req[q].fres[1].repos[1] # resp[1].repos

\* a step of invalidateCache that rewrote at least one row
InvalidateStep == req' = req /\ store' # store

\* the row of k after the step is the row before it with the two timestamps
\* that invalidateCache sets
Invalidated(k) ==
    /\ Row(store', k).fetchedAt = now - InvalidateHours
    /\ Row(store', k).updatedAt = now

TTLHours == TTLs \cup { 2 * InvalidateHours }

\* C28: right after invalidateCache has rewritten a status-ok record,
\* shouldRefreshCluster is true for its key under every TTL.
C28_InvalidateStaleForEveryTTL ==
    [][ \A k \in GroupIds :
          (Invalidates(k) /\ Row(store', k).status = "ok") =>
              \A ttl \in TTLHours : shouldRefreshCluster(store', k, now', ttl) ]_vars

\* C29: when a call that fetched ends, its fetch having succeeded or failed,
\* the record of its cluster is not left in status refreshing.
C29_CompletedRefreshNotRefreshing ==
    [][ \A r \in Reqs :
          (IsCluster(r) /\ Ends(r) /\ req[r].fres # None /\ Has(store', req[r].key)) =>
              Row(store', req[r].key).status # "refreshing" ]_vars

\* C30: every step that changes an existing record sets its updatedAt to
\* the time of the step.
C30_MutationSetsUpdatedAt ==
    [][ \A k \in StoreKeys :
          (Has(store, k) /\ Has(store', k) /\ store'[k] # store[k]) =>
              Row(store', k).updatedAt = now ]_vars

\* the store with the expiresAt of k's record replaced by e
WithExpiresAt(st, k, e) ==
    IF ~Has(st, k) THEN st
    ELSE [st EXCEPT ![k] = Some([Row(st, k) EXCEPT !.expiresAt = e])]

AnswersFresh(r) ==
    /\ Leaves(r, "shouldRefresh")
    /\ resp' # None
    /\ resp'[1].slot = r /\ resp'[1].cached /\ ~resp'[1].isStale

\* C32: a call that answers {cached: true, isStale: false} served a record
\* that was within its TTL at that moment, whatever its status.
C32_FreshAnswerWithinTTL ==
    [][ \A r \in Reqs :
          (IsCluster(r) /\ AnswersFresh(r)) =>
              (Has(store, req[r].key) /\ WithinTTL(req[r].key)) ]_vars

\* C33: with non-forced calls that keep arriving and fetches that succeed
\* from some point on, a record past its TTL is eventually a status-ok record
\* within its TTL again.
C33_ExpiredEventuallyRefreshed ==
    \A k \in Clusters :
        (k \in GroupIds /\ Has(store, k) /\ ~WithinTTL(k))
            ~> (Has(store, k) /\ Row(store, k).status = "ok" /\ WithinTTL(k))

\* ---------------------------------------------------------------------
\* Two refreshes of one cluster whose fetches are both in flight, and no
\* call arriving after them: slot 1 is a force refresh, slot 2 a second
\* force refresh or the background refresh of a stale record that was
\* running when the force refresh marked the record
\* ---------------------------------------------------------------------
InFetch(k, f, b) == [ IdleReq EXCEPT !.pc = "fetch", !.key = k, !.force = f, !.bg = b ]

InitOverlap ==
    /\ groups = << "cinder" >>
    /\ now \in Times
    /\ \E p \in Payloads("cinder") :
          store = [k \in StoreKeys |->
                     IF k = "cinder"
                     THEN Some([ repoNames |-> MapNames(p),
                                 rawData |-> p,
                                 fetchedAt |-> 0,
                                 expiresAt |-> CACHE_TTL_HOURS,
                                 status |-> "refreshing",
                                 errorCount |-> 0,
                                 lastError |-> Null,
                                 updatedAt |-> 0 ])
                     ELSE None]
    /\ tokenSet = TRUE
    /\ \E b \in BOOLEAN :
          /\ b => now > CACHE_TTL_HOURS
          /\ req = [r \in Reqs |-> IF r = 1 THEN InFetch("cinder", TRUE, FALSE)
                                    ELSE InFetch("cinder", ~b, b)]
    /\ resp = None
    /\ fails = [k \in StoreKeys |-> 0]

NextOverlap ==
    \/ \E r \in Reqs : Fetch(r)
    \/ \E r \in Reqs : StaleFallback(r)
    \/ \E r \in Reqs : RecErrRead(r)
    \/ \E r \in Reqs : RecErrWrite(r)
    \/ \E r \in Reqs : SetCached(r)
    \/ Tick

SpecOverlap == InitOverlap /\ [][NextOverlap]_vars

\* C34: with two fetches of a cluster in flight and none started later, once
\* one of them has been committed (the only way the record gets status ok)
\* the record keeps status ok and errorCount 0, whatever the other one does.
C34_CommitSurvivesLateFailure ==
    [][ \A k \in Clusters :
          (Has(store, k) /\ Row(store, k).status = "ok" /\ Row(store, k).errorCount = 0) =>
              (Has(store', k) /\ Row(store', k).status = "ok"
                              /\ Row(store', k).errorCount = 0) ]_vars

\* C35: every recordCacheError that writes raises the stored errorCount by
\* one, whatever other recordCacheError of the same cluster ran between its
\* read and its write.
C35_NoLostIncrement ==
    [][ \A r \in Reqs :
          (IsCluster(r) /\ Leaves(r, "recErrWrite")) =>
              ErrorCountOf(store', req[r].key) = ErrorCountOf(store, req[r].key) + 1 ]_vars

\* ---------------------------------------------------------------------
\* Force refreshes issued while the cluster's record is marked refreshing
\* and the fetch of a refresh is in flight: the first force refresh is
\* waiting for the upstream, and further ones arrive only in such moments
\* ---------------------------------------------------------------------
RefreshMarkedInFlight(k) ==
    /\ Has(store, k)
    /\ Row(store, k).status = "refreshing"
    /\ \E q \in Reqs : req[q].key = k /\ req[q].pc = "fetch"

InitForce ==
    /\ groups = << "cinder" >>
    /\ now \in Times
    /\ \E p \in Payloads("cinder") : \E f \in { t \in Times : t <= now } :
          store = [k \in StoreKeys |->
                     IF k = "cinder"
                     THEN Some([ repoNames |-> MapNames(p),
                                 rawData |-> p,
                                 fetchedAt |-> f,
                                 expiresAt |-> f + CACHE_TTL_HOURS,
                                 status |-> "refreshing",
                                 errorCount |-> 0,
                                 lastError |-> Null,
                                 updatedAt |-> f ])
                     ELSE None]
    /\ tokenSet = TRUE
    /\ req = [r \in Reqs |-> IF r = 1 THEN InFetch("cinder", TRUE, FALSE) ELSE IdleReq]
    /\ resp = None
    /\ fails = [k \in StoreKeys |-> 0]

ForceWhileRefreshing ==
    /\ \A i \in 1 .. Len(groups) : RefreshMarkedInFlight(groups[i])
    /\ forceRefreshAllClusters

NextForce ==
    \/ ForceWhileRefreshing
    \/ \E r \in Reqs : GetCached(r)
    \/ \E r \in Reqs : MissOrForce(r)
    \/ \E r \in Reqs : StartRefresh(r)
    \/ \E r \in Reqs : Fetch(r)
    \/ \E r \in Reqs : StaleFallback(r)
    \/ \E r \in Reqs : RecErrRead(r)
    \/ \E r \in Reqs : RecErrWrite(r)
    \/ \E r \in Reqs : SetCached(r)
    \/ Tick

SpecForce == InitForce /\ [][NextForce]_vars

\* C36: with force refreshes that are issued only while the record is marked
\* refreshing and a fetch for the cluster is in flight, no cluster ever has
\* two fetches in flight.
C36_ForceRefreshSingleFlight ==
    \A k \in Clusters : InFlight(k, Reqs) <= 1

OnFreshPath(r) ==
    /\ IsCluster(r)
    /\ req[r].pc = "shouldRefresh"
    /\ req[r].cached # None /\ ~req[r].force
    /\ ~needsRefresh(r)

\* C38: the step of a call on the FRESH path changes no record, ends the
\* call with the answer {cached: true, isStale: false} and leaves neither a
\* fetch nor a background refresh behind; the reads before it change no
\* record either.
C38_FreshPathReadOnly ==
    [][ \A r \in Reqs :
          /\ (OnFreshPath(r) /\ req'[r] # req[r]) =>
                /\ store' = store
                /\ fails' = fails
                /\ req'[r] = IdleReq
                /\ \A q \in Reqs \ {r} : req'[q] = req[q]
                /\ resp' = Response(r, req[r].cached[1], TRUE, FALSE, Null)
          /\ (IsCluster(r) /\ Leaves(r, "getCached")) =>
                (store' = store /\ req'[r].pc = "shouldRefresh") ]_vars

\* a call has just been answered as fresh from the record while the fetch
\* of another call for the same cluster is in flight
C38_Witness ==
    /\ resp # None
    /\ resp[1].cached /\ ~resp[1].isStale /\ resp[1].error = Null
    /\ req[resp[1].slot].pc = "idle"
    /\ Has(store, resp[1].key)
    /\ resp[1].repos = Row(store, resp[1].key).rawData
    /\ \E q \in Reqs : req[q].key = resp[1].key /\ req[q].pc = "fetch"

====
